---------------------------- MODULE Spec2Model ----------------------------
(*
  State-machine model of the audio streaming core of the Sales Call Feedback
  backend: the WebSocket endpoint (backend/main.py), the connection registry
  (backend/utils/websocket_manager.py), the audio session store
  (backend/services/audio/audio_handler.py), the Deepgram adapter
  (backend/services/transcription/deepgram_service.py) and the persistence
  calls the endpoint makes (backend/services/call_service.py).

  A handler is one invocation of websocket_endpoint; it is identified by the
  WebSocket object it was given.  Python dictionaries are functions whose
  DOMAIN is the set of keys present.  An Optional value is a sequence of
  length at most one.  Every step of a handler is the code between two
  places where the coroutine can be suspended.
*)
EXTENDS Integers, Sequences, FiniteSets, TLC

\* ------------------------------------------------------------------ bounds
\* frames and provider events delivered in the one-client specification
MaxInputs == 3
\* frames and provider events delivered in the two-client specification
PairInputs == 2
\* frames the handler receives in the long specification
LongFrames == 51
\* frames other than audio, and provider events, in the long specification
LongOther == 1
\* SpecCast: calls of broadcast
MaxBroadcasts == 1
\* frames and provider events delivered in the two-session specification
ScopeInputs == 3

\* main.py: acknowledgment and statistics moduli
AckEvery == 10
StatsEvery == 50

\* the WebSocket objects (one per handler invocation) and the session ids
\* clients put in the URL path
Conns == {"w1", "w2"}
SIDs == {"a", "b"}

\* ------------------------------------------------------------ message codec
\* base64 alphabet of binascii.a2b_base64
Alphabet ==
    << "A","B","C","D","E","F","G","H","I","J","K","L","M","N","O","P",
       "Q","R","S","T","U","V","W","X","Y","Z","a","b","c","d","e","f",
       "g","h","i","j","k","l","m","n","o","p","q","r","s","t","u","v",
       "w","x","y","z","0","1","2","3","4","5","6","7","8","9","+","/" >>

IsB64Char(ch) == \E i \in 1..Len(Alphabet) : Alphabet[i] = ch

B64Value(ch) == (CHOOSE i \in 1..Len(Alphabet) : Alphabet[i] = ch) - 1

\* binascii.a2b_base64 in its default (non strict) mode: characters outside
\* the alphabet are skipped, a complete pad sequence ends the input, and data
\* characters left over at the end are an error.
RECURSIVE a2b_base64(_, _, _, _, _, _)
a2b_base64(s, i, quad_pos, leftchar, pads, out) ==
    IF i > Len(s)
    THEN IF quad_pos # 0
         THEN [ok |-> FALSE, bytes |-> << >>]
         ELSE [ok |-> TRUE, bytes |-> out]
    ELSE IF s[i] = "="
    THEN IF quad_pos >= 2 /\ quad_pos + pads + 1 >= 4
         THEN [ok |-> TRUE, bytes |-> out]
         ELSE a2b_base64(s, i + 1, quad_pos, leftchar,
                         IF quad_pos >= 2 THEN pads + 1 ELSE pads, out)
    ELSE IF ~IsB64Char(s[i])
    THEN a2b_base64(s, i + 1, quad_pos, leftchar, pads, out)
    ELSE LET v == B64Value(s[i]) IN
         CASE quad_pos = 0 -> a2b_base64(s, i + 1, 1, v, 0, out)
           [] quad_pos = 1 -> a2b_base64(s, i + 1, 2, v % 16, 0,
                                         Append(out, leftchar * 4 + v \div 16))
           [] quad_pos = 2 -> a2b_base64(s, i + 1, 3, v % 4, 0,
                                         Append(out, leftchar * 16 + v \div 4))
           [] OTHER        -> a2b_base64(s, i + 1, 0, 0, 0,
                                         Append(out, leftchar * 64 + v))

\* encoded_data.split(',', 1)[1] when a comma is present
AfterComma(s) ==
    IF \E i \in 1..Len(s) : s[i] = ","
    THEN LET k == CHOOSE i \in 1..Len(s) :
                     s[i] = "," /\ \A j \in 1..(i - 1) : s[j] # ","
         IN  SubSeq(s, k + 1, Len(s))
    ELSE s

\* AudioHandler.decode_audio_data: ok = FALSE stands for the ValueError
decode_audio_data(encoded_data) ==
    a2b_base64(AfterComma(encoded_data), 1, 0, 0, 0, << >>)

\* ------------------------------------------------------------------ frames
\* what websocket.receive() returns.  json tells what json.loads makes of a
\* text frame: "invalid" raises JSONDecodeError, "scalar" is valid JSON that
\* is no object, "object" is an object with the given type / data / timestamp.
BinaryFrame(b) ==
    [kind |-> "bytes", bytes |-> b, json |-> "", type |-> "", data |-> << >>,
     timestamp |-> 0]

TextFrame(j, t, d, ts) ==
    [kind |-> "text", bytes |-> << >>, json |-> j, type |-> t, data |-> d,
     timestamp |-> ts]

NoFrame == TextFrame("", "", << >>, 0)

\* binary payloads and base64 strings the short specification draws from
Payloads == { << >>, <<1, 2>> }

TextData ==
    { << >>,
      <<"A", "Q", "=", "=">>,
      <<"A", "Q", "I">>,
      <<"x", ",", "A", "Q", "=", "=">> }

Frames ==
    { BinaryFrame(b) : b \in Payloads }
    \cup { TextFrame("object", "audio", d, 0) : d \in TextData }
    \cup { TextFrame("object", "ping", << >>, ts) : ts \in {7} }
    \cup { TextFrame("object", "stop", << >>, 0),
           TextFrame("object", "mute", << >>, 0),
           TextFrame("invalid", "", << >>, 0),
           TextFrame("scalar", "", << >>, 0) }

\* the long specification: one payload, as a binary frame or base64 text
LongFrameSet ==
    { BinaryFrame(<<1, 2>>),
      TextFrame("object", "audio", <<"A", "Q", "I", "=">>, 0),
      TextFrame("invalid", "", << >>, 0),
      TextFrame("object", "stop", << >>, 0) }

\* -------------------------------------------------------- dictionaries
Put(d, k, v) == [x \in DOMAIN d \cup {k} |-> IF x = k THEN v ELSE d[x]]

Del(d, k) == [x \in DOMAIN d \ {k} |-> d[x]]

EmptyDict == [x \in {} |-> 0]


\* ------------------------------------------------------------------ state
VARIABLES
    active_connections, \* ConnectionManager.active_connections: sid -> websocket
    active_order,       \* the entries of that dict in insertion order, Dummy for a deleted one
    all_connections,    \* ConnectionManager.all_connections: set of websockets
    sessions,           \* AudioHandler.sessions: sid -> AudioSession
    enabled,            \* DeepgramTranscriptionService.enabled
    connections,        \* DeepgramTranscriptionService.connections: sid -> provider connection
    provider,           \* each handler's provider connection: its state and the audio sent over it
    calls,              \* table calls, keyed by the unique column session_id
    transcriptions,     \* table transcriptions, in insertion order
    now,                \* the value the next datetime.utcnow() returns
    pc,                 \* each handler's position in websocket_endpoint
    session_id,         \* each handler's session_id path parameter
    transcription_enabled, \* each handler's local variable, unbound when not in DOMAIN
    ws,                 \* each websocket's transport: "new", "open", "gone"
    outbox,             \* the messages send_json delivered on each websocket
    cleanup_log,        \* the cleanup steps each handler's finally block has run
    nrecv,              \* number of frames each handler has received
    last,               \* the frame each handler received last
    appended,           \* per handler: number and total length of the payloads it passed to process_audio_chunk
    returned,           \* the dict process_audio_chunk returned last to each handler
    db_errors,          \* number of persistence calls that raised (each is caught and logged)
    nevents,            \* number of provider events delivered
    last_event,         \* the provider event delivered last
    bc                  \* the frame of the broadcast coroutine

vars ==
    << active_connections, all_connections, sessions, enabled, connections,
       provider, calls, transcriptions, now, pc, session_id,
       transcription_enabled, ws, outbox, cleanup_log, nrecv, last, appended,
       returned, db_errors, nevents, last_event, active_order, bc >>

\* ------------------------------------------------------ audio session store
\* AudioSession.__init__
AudioSession == [audio_chunks |-> << >>, total_bytes |-> 0, is_active |-> TRUE]

\* add_chunk with "=" written for "+="
add_chunk_assigns(session, audio_data) ==
    [session EXCEPT
        !.audio_chunks = Append(@, [data |-> audio_data, size |-> Len(audio_data)]),
        !.total_bytes = Len(audio_data)]

\* AudioSession.add_chunk
add_chunk(session, audio_data) ==
    [session EXCEPT
        !.audio_chunks = Append(@, [data |-> audio_data, size |-> Len(audio_data)]),
        !.total_bytes = @ + Len(audio_data)]

\* AudioHandler.create_session
create_session(store, sid) == Put(store, sid, AudioSession)

\* close_session leaving a stopped session behind for an id it does not find
close_session_leaves_entry(store, sid) ==
    IF sid \in DOMAIN store
    THEN Del(store, sid)
    ELSE Put(store, sid, [AudioSession EXCEPT !.is_active = FALSE])

\* AudioHandler.close_session
close_session(store, sid) ==
    IF sid \in DOMAIN store THEN Del(store, sid) ELSE store

ErrorResult == [status |-> "error", chunks_received |-> 0, total_bytes |-> 0]

\* process_audio_chunk opening the session it does not find
process_audio_chunk_opens(store, sid, audio_data) ==
    LET session == add_chunk(IF sid \in DOMAIN store THEN store[sid] ELSE AudioSession,
                             audio_data)
    IN  [sessions |-> Put(store, sid, session),
         result |-> [status |-> "success",
                     chunks_received |-> Len(session.audio_chunks),
                     total_bytes |-> session.total_bytes]]

\* AudioHandler.process_audio_chunk: the store after the call and the dict returned
process_audio_chunk(store, sid, audio_data) ==
    IF sid \notin DOMAIN store
    THEN [sessions |-> store, result |-> ErrorResult]
    ELSE IF ~store[sid].is_active
    THEN [sessions |-> store, result |-> ErrorResult]
    ELSE LET session == add_chunk(store[sid], audio_data) IN
         [sessions |-> Put(store, sid, session),
          result |-> [status |-> "success",
                      chunks_received |-> Len(session.audio_chunks),
                      total_bytes |-> session.total_bytes]]

\* ------------------------------------------------------ connection registry
\* the registry and the transports it writes to, as one value
Manager ==
    [active |-> active_connections, all |-> all_connections, out |-> outbox,
     order |-> active_order]

\* the entry a deleted key leaves behind
Dummy == ""

\* ConnectionManager.connect, after websocket.accept() returned
connect(m, websocket, sid) ==
    [m EXCEPT !.active = Put(@, sid, websocket), !.all = @ \cup {websocket},
              !.order = IF sid \in DOMAIN m.active THEN @ ELSE Append(@, sid)]

\* disconnect dropping every handle of the registry
disconnect_drops_all(m, sid) ==
    IF sid \in DOMAIN m.active
    THEN [m EXCEPT !.all = {}, !.active = EmptyDict,
                   !.order = [i \in DOMAIN m.order |-> Dummy]]
    ELSE m

\* ConnectionManager.disconnect
disconnect(m, sid) ==
    IF sid \in DOMAIN m.active
    THEN [m EXCEPT !.all = @ \ {m.active[sid]}, !.active = Del(@, sid),
                   !.order = [i \in DOMAIN m.order |->
                                 IF m.order[i] = sid THEN Dummy ELSE m.order[i]]]
    ELSE m

\* WebSocket.send_json raises when the transport is gone
SendFails(websocket) == ws[websocket] # "open"

\* send_message putting the message ahead of those already sent
send_message_prepends(m, sid, message) ==
    IF sid \in DOMAIN m.active
    THEN IF SendFails(m.active[sid])
         THEN disconnect(m, sid)
         ELSE [m EXCEPT !.out[m.active[sid]] = <<message>> \o @]
    ELSE m

\* ConnectionManager.send_message
send_message(m, sid, message) ==
    IF sid \in DOMAIN m.active
    THEN IF SendFails(m.active[sid])
         THEN disconnect(m, sid)
         ELSE [m EXCEPT !.out[m.active[sid]] = Append(@, message)]
    ELSE m

\* what ConnectionManager.send_message gives back to its caller: the method
\* has no return statement, so it is None whether send_json raised or not
send_message_value(m, sid, message, raised) == "None"

\* server -> client messages (main.py); message is a text of the server,
\* transcript the provider's text (a sequence of characters)
Msg(t, sid, n, bytes, ts, text, transcript, final, flag) ==
    [type |-> t, session_id |-> sid, chunks_received |-> n, total_bytes |-> bytes,
     timestamp |-> ts, message |-> text, transcript |-> transcript,
     is_final |-> final, transcription_enabled |-> flag]

ConnectionMsg(sid, flag) ==
    Msg("connection", sid, 0, 0, 0, "WebSocket connection established", << >>, FALSE, flag)
AudioAck(sid, result) ==
    Msg("audio_ack", sid, result.chunks_received, result.total_bytes, 0, "", << >>,
        FALSE, FALSE)
\* pong that carries no timestamp of the ping
Pong_unstamped(ts) == Msg("pong", "", 0, 0, 0, "", << >>, FALSE, FALSE)

Pong(ts) == Msg("pong", "", 0, 0, ts, "", << >>, FALSE, FALSE)
Stopped(sid) == Msg("stopped", sid, 0, 0, 0, "", << >>, FALSE, FALSE)
ErrorMsg == Msg("error", "", 0, 0, 0, "Invalid message format", << >>, FALSE, FALSE)
TranscriptionMsg(transcript, final) ==
    Msg("transcription", "", 0, 0, 0, "", transcript, final, FALSE)
TranscriptionError(text) ==
    Msg("transcription_error", "", 0, 0, 0, text, << >>, FALSE, FALSE)

\* the message of a broadcast
Notice == Msg("notice", "", 0, 0, 0, "notice", << >>, FALSE, FALSE)

\* The frame of ConnectionManager.broadcast: where the coroutine is, the
\* iterator over active_connections.items() (pos: entries passed, used: the
\* size of the dict when the iterator was made, len: items still expected),
\* the list `disconnected`, and the dict as it was at the call.
NoBroadcast ==
    [pc |-> "idle", pos |-> 0, used |-> 0, len |-> 0, disconnected |-> << >>,
     before |-> EmptyDict, n |-> 0]

NewBroadcast(m, n) ==
    [pc |-> "sending", pos |-> 0, used |-> Cardinality(DOMAIN m.active),
     len |-> Cardinality(DOMAIN m.active), disconnected |-> << >>,
     before |-> m.active, n |-> n]

RECURSIVE DisconnectAll(_, _)
DisconnectAll(m, sids) ==
    IF sids = << >> THEN m ELSE DisconnectAll(disconnect(m, sids[1]), Tail(sids))

\* broadcast that gives up at the first send that raises
broadcast_stops_at_failure(frame, m, message) ==
    LET live == { i \in (frame.pos + 1)..Len(m.order) : m.order[i] # Dummy } IN
    IF frame.used # Cardinality(DOMAIN m.active)
    THEN [frame |-> [frame EXCEPT !.pc = "raised"], manager |-> m]
    ELSE IF live = {}
    THEN [frame |-> [frame EXCEPT !.pc = "returned"],
          manager |-> DisconnectAll(m, frame.disconnected)]
    ELSE IF frame.len = 0
    THEN [frame |-> [frame EXCEPT !.pc = "raised"], manager |-> m]
    ELSE LET i == CHOOSE j \in live : \A k \in live : j <= k
             sid == m.order[i]
         IN  IF SendFails(m.active[sid])
             THEN [frame |-> [frame EXCEPT !.pc = "returned"],
                   manager |-> disconnect(m, sid)]
             ELSE [frame |-> [frame EXCEPT !.pos = i, !.len = @ - 1],
                   manager |-> [m EXCEPT !.out[m.active[sid]] = Append(@, message)]]

\* ConnectionManager.broadcast, from one suspension of the coroutine to the
\* next: the for statement asks the iterator for the next item (RuntimeError
\* when the dict changed size, or when an entry turns up that the iterator
\* did not expect), then send_json is awaited on it; when the iterator is
\* exhausted the sessions listed in `disconnected` are removed and the
\* coroutine returns.
broadcast(frame, m, message) ==
    LET live == { i \in (frame.pos + 1)..Len(m.order) : m.order[i] # Dummy } IN
    IF frame.used # Cardinality(DOMAIN m.active)
    THEN [frame |-> [frame EXCEPT !.pc = "raised"], manager |-> m]
    ELSE IF live = {}
    THEN [frame |-> [frame EXCEPT !.pc = "returned"],
          manager |-> DisconnectAll(m, frame.disconnected)]
    ELSE IF frame.len = 0
    THEN [frame |-> [frame EXCEPT !.pc = "raised"], manager |-> m]
    ELSE LET i == CHOOSE j \in live : \A k \in live : j <= k
             sid == m.order[i]
         IN  IF SendFails(m.active[sid])
             THEN [frame |-> [frame EXCEPT !.pos = i, !.len = @ - 1,
                                           !.disconnected = Append(@, sid)],
                   manager |-> m]
             ELSE [frame |-> [frame EXCEPT !.pos = i, !.len = @ - 1],
                   manager |-> [m EXCEPT !.out[m.active[sid]] = Append(@, message)]]

\* ------------------------------------------------------------ persistence
\* The durable store as one value.  ok = FALSE is a call whose query or
\* commit raises (the store is unreachable); a raising call changes nothing.
\* Transcripts drawn by the model carry no "recorded on" or duration header,
\* so extract_call_metadata yields nothing that touches the fields kept here.
Database == [calls |-> calls, transcriptions |-> transcriptions, now |-> now]

\* Call(session_id, started_at, status="active") with the column defaults
NewCall(started_at) ==
    [started_at |-> started_at, ended_at |-> << >>, duration_seconds |-> << >>,
     total_bytes |-> 0, chunks_count |-> 0, status |-> "active"]

\* CallService.create_call; session_id is a unique column
create_call(db, sid, ok) ==
    IF ~ok \/ sid \in DOMAIN db.calls
    THEN [db |-> db, raised |-> TRUE]
    ELSE [db |-> [db EXCEPT !.calls = Put(@, sid, NewCall(db.now)),
                            !.now = @ + 1],
          raised |-> FALSE]

\* CallService.update_call_stats
update_call_stats(db, sid, total_bytes, chunks_count, ok) ==
    IF ~ok
    THEN [db |-> db, raised |-> TRUE]
    ELSE IF sid \in DOMAIN db.calls
    THEN [db |-> [db EXCEPT !.calls[sid].total_bytes = total_bytes,
                            !.calls[sid].chunks_count = chunks_count],
          raised |-> FALSE]
    ELSE [db |-> db, raised |-> FALSE]

Max(a, b) == IF a >= b THEN a ELSE b

\* end_call stamping the end time on every call
end_call_restamps(db, sid, ok) ==
    IF ~ok
    THEN [db |-> db, raised |-> TRUE]
    ELSE IF sid \in DOMAIN db.calls
    THEN [db |-> [db EXCEPT
                    !.calls[sid] = [@ EXCEPT
                        !.ended_at = <<db.now>>,
                        !.status = "completed",
                        !.duration_seconds = << Max(0, db.now - db.calls[sid].started_at) >>],
                    !.now = @ + 1],
          raised |-> FALSE]
    ELSE [db |-> db, raised |-> FALSE]

\* CallService.end_call
end_call(db, sid, ok) ==
    IF ~ok
    THEN [db |-> db, raised |-> TRUE]
    ELSE IF sid \in DOMAIN db.calls
    THEN LET call == db.calls[sid]
             ended_at == IF call.ended_at = << >> THEN <<db.now>> ELSE call.ended_at
             duration ==
                 IF call.duration_seconds = << >> \/ call.duration_seconds[1] <= 0
                 THEN << Max(0, ended_at[1] - call.started_at) >>
                 ELSE call.duration_seconds
         IN  [db |-> [db EXCEPT
                        !.calls[sid] = [call EXCEPT !.ended_at = ended_at,
                                                    !.status = "completed",
                                                    !.duration_seconds = duration],
                        !.now = IF call.ended_at = << >> THEN @ + 1 ELSE @],
              raised |-> FALSE]
    ELSE [db |-> db, raised |-> FALSE]

\* add_transcription keeping final lines only
add_transcription_final_only(db, sid, transcript, is_final, ok) ==
    IF ~ok
    THEN [db |-> db, raised |-> TRUE]
    ELSE IF sid \notin DOMAIN db.calls \/ ~is_final
    THEN [db |-> db, raised |-> FALSE]
    ELSE [db |-> [db EXCEPT
                    !.transcriptions =
                        Append(@, [session_id |-> sid, transcript |-> transcript,
                                   is_final |-> is_final]),
                    !.now = @ + 1],
          raised |-> FALSE]

\* add_transcription putting the new line first
add_transcription_prepends(db, sid, transcript, is_final, ok) ==
    IF ~ok
    THEN [db |-> db, raised |-> TRUE]
    ELSE IF sid \notin DOMAIN db.calls
    THEN [db |-> db, raised |-> FALSE]
    ELSE [db |-> [db EXCEPT
                    !.transcriptions =
                        <<[session_id |-> sid, transcript |-> transcript,
                           is_final |-> is_final]>> \o @,
                    !.now = @ + 1],
          raised |-> FALSE]

\* CallService.add_transcription
add_transcription(db, sid, transcript, is_final, ok) ==
    IF ~ok
    THEN [db |-> db, raised |-> TRUE]
    ELSE IF sid \notin DOMAIN db.calls
    THEN [db |-> db, raised |-> FALSE]
    ELSE [db |-> [db EXCEPT
                    !.transcriptions =
                        Append(@, [session_id |-> sid, transcript |-> transcript,
                                   is_final |-> is_final]),
                    !.now = @ + 1],
          raised |-> FALSE]

\* ------------------------------------------------------ transcription adapter
\* The adapter's map and the provider connections, as one value.  A provider
\* connection is named after the handler whose start_transcription made it.
Adapter == [connections |-> connections, provider |-> provider]

NoProvider == [state |-> "none", audio |-> << >>]

\* start_transcription without the test of self.enabled
start_transcription_unguarded(a, m, websocket, sid, outcome) ==
    CASE outcome = "ok" ->
            [adapter |-> [a EXCEPT !.connections = Put(@, sid, websocket),
                                   !.provider[websocket].state = "open"],
             manager |-> m, returned |-> TRUE]
      [] outcome = "false" ->
            [adapter |-> a, manager |-> m, returned |-> FALSE]
      [] OTHER ->
            [adapter |-> a,
             manager |-> send_message(m, sid,
                             TranscriptionError("Failed to start transcription")),
             returned |-> FALSE]

\* start_transcription giving up the client when the provider does not start
start_transcription_drops_client(a, m, websocket, sid, outcome) ==
    IF ~enabled
    THEN [adapter |-> a, manager |-> m, returned |-> FALSE]
    ELSE IF outcome = "ok"
    THEN [adapter |-> [a EXCEPT !.connections = Put(@, sid, websocket),
                                !.provider[websocket].state = "open"],
          manager |-> m, returned |-> TRUE]
    ELSE [adapter |-> a, manager |-> disconnect(m, sid), returned |-> FALSE]

\* DeepgramTranscriptionService.start_transcription, for the handler `websocket`.
\* outcome: "ok" (connection.start returned true), "false" (it returned
\* false), "raise" (the client or the handshake raised).  Gives the adapter
\* and the registry (on_error sends through it) after the call.
start_transcription(a, m, websocket, sid, outcome) ==
    IF ~enabled
    THEN [adapter |-> a, manager |-> m, returned |-> FALSE]
    ELSE CASE outcome = "ok" ->
                [adapter |-> [a EXCEPT !.connections = Put(@, sid, websocket),
                                       !.provider[websocket].state = "open"],
                 manager |-> m, returned |-> TRUE]
           [] outcome = "false" ->
                [adapter |-> a, manager |-> m, returned |-> FALSE]
           [] OTHER ->
                [adapter |-> a,
                 manager |-> send_message(m, sid,
                                 TranscriptionError("Failed to start transcription")),
                 returned |-> FALSE]

\* send_audio answering True after connection.send raised
send_audio_swallows(a, sid, audio_data, ok) ==
    IF sid \notin DOMAIN a.connections
    THEN [adapter |-> a, returned |-> FALSE]
    ELSE [adapter |-> IF ok
                      THEN [a EXCEPT !.provider[a.connections[sid]].audio =
                                         Append(@, audio_data)]
                      ELSE a,
          returned |-> TRUE]

\* send_audio sending the chunk a second time
send_audio_twice(a, sid, audio_data, ok) ==
    IF sid \notin DOMAIN a.connections
    THEN [adapter |-> a, returned |-> FALSE]
    ELSE IF ok
    THEN [adapter |-> [a EXCEPT !.provider[a.connections[sid]].audio =
                                    Append(Append(@, audio_data), audio_data)],
          returned |-> TRUE]
    ELSE [adapter |-> a, returned |-> FALSE]

\* DeepgramTranscriptionService.send_audio; ok = FALSE is connection.send raising
send_audio(a, sid, audio_data, ok) ==
    IF sid \notin DOMAIN a.connections
    THEN [adapter |-> a, returned |-> FALSE]
    ELSE IF ok
    THEN [adapter |-> [a EXCEPT !.provider[a.connections[sid]].audio =
                                    Append(@, audio_data)],
          returned |-> TRUE]
    ELSE [adapter |-> a, returned |-> FALSE]

\* DeepgramTranscriptionService.stop_transcription; ok = FALSE is
\* connection.finish() raising, which leaves the provider connection as it was
stop_transcription(a, sid, ok) ==
    IF sid \notin DOMAIN a.connections
    THEN a
    ELSE IF ok
    THEN [a EXCEPT !.provider[a.connections[sid]].state = "finished",
                   !.connections = Del(@, sid)]
    ELSE a

\* provider events: a transcript result or an error
\* (conn names the provider connection once the event is delivered)
TranscriptEvent(text, final) ==
    [kind |-> "transcript", text |-> text, is_final |-> final, conn |-> ""]
ErrorEvent == [kind |-> "error", text |-> << >>, is_final |-> FALSE, conn |-> ""]
NoEvent == [kind |-> "", text |-> << >>, is_final |-> FALSE, conn |-> ""]

Events ==
    { TranscriptEvent(<<"h", "i">>, TRUE), TranscriptEvent(<<"h", "i">>, FALSE),
      TranscriptEvent(<<" ">>, TRUE), TranscriptEvent(<< >>, FALSE), ErrorEvent }

\* str.strip() on a sequence of characters
Strip(s) ==
    IF \A i \in 1..Len(s) : s[i] = " "
    THEN << >>
    ELSE LET first == CHOOSE i \in 1..Len(s) :
                          s[i] # " " /\ \A j \in 1..(i - 1) : s[j] = " "
             final == CHOOSE i \in 1..Len(s) :
                          s[i] # " " /\ \A j \in (i + 1)..Len(s) : s[j] = " "
         IN  SubSeq(s, first, final)

\* on_transcript with the send inside the try block
on_transcript_send_in_try(db, m, websocket, ev, ok) ==
    LET sid == session_id[websocket]
        saved == add_transcription(db, sid, ev.text, ev.is_final, ok)
    IN  [db |-> saved.db, db_raised |-> saved.raised,
         manager |-> IF saved.raised THEN m
                     ELSE send_message(m, sid, TranscriptionMsg(ev.text, ev.is_final))]

\* on_transcript (main.py), the callback of the handler `websocket`
on_transcript(db, m, websocket, ev, ok) ==
    LET sid == session_id[websocket]
        saved == add_transcription(db, sid, ev.text, ev.is_final, ok)
    IN  [db |-> saved.db, db_raised |-> saved.raised,
         manager |-> send_message(m, sid, TranscriptionMsg(ev.text, ev.is_final))]

\* on_transcription_error (main.py)
on_transcription_error(m, websocket, error_msg) ==
    send_message(m, session_id[websocket], TranscriptionError(error_msg))

\* handle_transcript testing the length of the text without strip()
handle_event_without_strip(db, m, websocket, ev, ok) ==
    IF ev.kind = "error"
    THEN [db |-> db, db_raised |-> FALSE,
          manager |-> on_transcription_error(m, websocket, "provider error")]
    ELSE IF Len(ev.text) > 0
    THEN on_transcript(db, m, websocket, ev, ok)
    ELSE [db |-> db, db_raised |-> FALSE, manager |-> m]

\* handle_transcript / handle_error (deepgram_service.py), the provider's
\* callbacks on the connection that `websocket`'s handler opened
handle_event(db, m, websocket, ev, ok) ==
    IF ev.kind = "error"
    THEN [db |-> db, db_raised |-> FALSE,
          manager |-> on_transcription_error(m, websocket, "provider error")]
    ELSE IF Len(Strip(ev.text)) > 0
    THEN on_transcript(db, m, websocket, ev, ok)
    ELSE [db |-> db, db_raised |-> FALSE, manager |-> m]

\* ------------------------------------------------------------ the endpoint
\* the statistics written on the acknowledgment modulus
should_write_stats_on_ack(result) == result.chunks_received % AckEvery = 0

\* the statistics test that misses the first batch
should_write_stats_late(result) ==
    result.chunks_received % StatsEvery = 0 /\ result.chunks_received > StatsEvery

\* main.py 156 / 204 and 167 / 216: the two moduli of the chunk counter
should_write_stats(result) == result.chunks_received % StatsEvery = 0

\* the acknowledgment test counting from one
should_ack_off_by_one(result) == result.chunks_received % AckEvery = 1

should_ack(result) == result.chunks_received % AckEvery = 0

\* relay_audio with the statistics write outside its try block
relay_audio_stats_fatal(websocket, audio_bytes, psend, dbok) ==
    LET sid == session_id[websocket]
        r == process_audio_chunk(sessions, sid, audio_bytes)
        result == r.result
        a1 == IF transcription_enabled[websocket]
              THEN send_audio(Adapter, sid, audio_bytes, psend).adapter
              ELSE Adapter
        stats == IF should_write_stats(result)
                 THEN update_call_stats(Database, sid, result.total_bytes,
                                        result.chunks_received, dbok)
                 ELSE [db |-> Database, raised |-> FALSE]
        m1 == IF should_ack(result) /\ ~stats.raised
              THEN send_message(Manager, sid, AudioAck(sid, result))
              ELSE Manager
    IN  [store |-> r.sessions, adapter |-> a1, db |-> stats.db, manager |-> m1,
         next |-> IF result.status = "error" \/ stats.raised THEN "cleanup" ELSE "active",
         chunk |-> <<audio_bytes>>, result |-> <<result>>, db_raised |-> stats.raised]

\* main.py 149-171 and 197-220: count the chunk, forward it, write the
\* statistics every StatsEvery-th chunk, acknowledge every AckEvery-th.
\* next = "cleanup" is the KeyError that result['chunks_received'] raises on
\* an error result.
relay_audio(websocket, audio_bytes, psend, dbok) ==
    LET sid == session_id[websocket]
        r == process_audio_chunk(sessions, sid, audio_bytes)
        result == r.result
        a1 == IF transcription_enabled[websocket]
              THEN send_audio(Adapter, sid, audio_bytes, psend).adapter
              ELSE Adapter
        stats == IF should_write_stats(result)
                 THEN update_call_stats(Database, sid, result.total_bytes,
                                        result.chunks_received, dbok)
                 ELSE [db |-> Database, raised |-> FALSE]
        m1 == IF should_ack(result)
              THEN send_message(Manager, sid, AudioAck(sid, result))
              ELSE Manager
    IN  IF result.status = "error"
        THEN [store |-> r.sessions, adapter |-> a1, db |-> Database,
              manager |-> Manager, next |-> "cleanup",
              chunk |-> <<audio_bytes>>, result |-> <<result>>, db_raised |-> FALSE]
        ELSE [store |-> r.sessions, adapter |-> a1, db |-> stats.db,
              manager |-> m1, next |-> "active",
              chunk |-> <<audio_bytes>>, result |-> <<result>>,
              db_raised |-> stats.raised]

\* a loop iteration that touches nothing but the registry and the position
Only(m, next) ==
    [store |-> sessions, adapter |-> Adapter, db |-> Database, manager |-> m,
     next |-> next, chunk |-> << >>, result |-> << >>, db_raised |-> FALSE]

\* the stop command without its break
on_stop_no_break(websocket) ==
    Only(send_message(Manager, session_id[websocket], Stopped(session_id[websocket])),
         "active")

\* main.py 179-185: the stop command
on_stop(websocket) ==
    Only(send_message(Manager, session_id[websocket], Stopped(session_id[websocket])),
         "cleanup")

\* JSONDecodeError left to the outer except clause
on_invalid_json_fatal(websocket) ==
    Only(send_message(Manager, session_id[websocket], ErrorMsg), "cleanup")

\* main.py 187-192: json.loads raised JSONDecodeError
on_invalid_json(websocket) ==
    Only(send_message(Manager, session_id[websocket], ErrorMsg), "active")

\* main.py 137-220: one iteration of the receive loop on frame f.
\* next = "cleanup" is a break or an exception leaving the loop.
on_frame(websocket, f, psend, dbok) ==
    LET sid == session_id[websocket] IN
    IF f.kind = "text"
    THEN CASE f.json = "invalid" -> on_invalid_json(websocket)
           [] f.json = "scalar" ->
                Only(Manager, "cleanup")
           [] OTHER ->
                CASE f.type = "audio" ->
                        IF f.data # << >>
                        THEN LET decoded == decode_audio_data(f.data) IN
                             IF decoded.ok
                             THEN relay_audio(websocket, decoded.bytes, psend, dbok)
                             ELSE Only(Manager, "cleanup")
                        ELSE Only(Manager, "active")
                  [] f.type = "ping" ->
                        Only(send_message(Manager, sid, Pong(f.timestamp)), "active")
                  [] f.type = "stop" -> on_stop(websocket)
                  [] OTHER -> Only(Manager, "active")
    ELSE relay_audio(websocket, f.bytes, psend, dbok)

\* main.py 226-240: the finally block, for a handler whose local
\* transcription_enabled is bound
cleanup(websocket, finish_ok, dbok) ==
    LET sid == session_id[websocket]
        a1 == IF transcription_enabled[websocket]
              THEN stop_transcription(Adapter, sid, finish_ok)
              ELSE Adapter
        ended == end_call(Database, sid, dbok)
        m1 == disconnect(Manager, sid)
        store1 == close_session(sessions, sid)
    IN  [store |-> store1, adapter |-> a1, db |-> ended.db, manager |-> m1,
         db_raised |-> ended.raised,
         log |-> (IF transcription_enabled[websocket] THEN <<"stop_transcription">> ELSE << >>)
                 \o <<"end_call", "disconnect", "close_session", "db_close">>]

\* ------------------------------------------------------------------ actions
Init ==
    /\ active_connections = EmptyDict
    /\ active_order = << >>
    /\ bc = NoBroadcast
    /\ all_connections = {}
    /\ sessions = EmptyDict
    /\ enabled \in BOOLEAN
    /\ connections = EmptyDict
    /\ provider = [w \in Conns |-> NoProvider]
    /\ calls = EmptyDict
    /\ transcriptions = << >>
    /\ now = 1
    /\ pc = [w \in Conns |-> "idle"]
    /\ session_id = EmptyDict
    /\ transcription_enabled = EmptyDict
    /\ ws = [w \in Conns |-> "open"]
    /\ outbox = [w \in Conns |-> << >>]
    /\ cleanup_log = [w \in Conns |-> << >>]
    /\ nrecv = [w \in Conns |-> 0]
    /\ last = [w \in Conns |-> NoFrame]
    /\ appended = [w \in Conns |-> [n |-> 0, bytes |-> 0]]
    /\ returned = [w \in Conns |-> ErrorResult]
    /\ db_errors = 0
    /\ nevents = 0
    /\ last_event = NoEvent

\* the primed store, adapter, persistence and registry
Becomes(store, a, db, m) ==
    /\ sessions' = store
    /\ connections' = a.connections
    /\ provider' = a.provider
    /\ calls' = db.calls
    /\ transcriptions' = db.transcriptions
    /\ now' = db.now
    /\ active_connections' = m.active
    /\ active_order' = m.order
    /\ all_connections' = m.all
    /\ outbox' = m.out

\* the client goes away: from now on send_json raises on this websocket and
\* receive() reports the disconnect once the frames already queued are read
ClientDrop(w) ==
    /\ pc[w] \in {"idle", "starting", "active"}
    /\ ws[w] = "open"
    /\ ws' = [ws EXCEPT ![w] = "gone"]
    /\ UNCHANGED << active_connections, active_order, all_connections, sessions, enabled,
                    connections, provider, calls, transcriptions, now, pc,
                    session_id, transcription_enabled, outbox, cleanup_log, nrecv,
                    last, appended, returned, db_errors, nevents, last_event, bc >>

\* main.py 73-88 (and 125-133 when transcription is disabled): the handler is
\* invoked for websocket w with path parameter sid.  When accept() raises,
\* the finally block reads the unbound local transcription_enabled and the
\* UnboundLocalError leaves the handler.
Connect(w, sid, dbok) ==
    /\ pc[w] = "idle"
    /\ session_id' = Put(session_id, w, sid)
    /\ IF ws[w] = "gone"
       THEN /\ pc' = [pc EXCEPT ![w] = "raised"]
            /\ UNCHANGED << active_connections, active_order, all_connections, sessions,
                            connections, provider, calls, transcriptions, now,
                            transcription_enabled, outbox, db_errors >>
       ELSE LET m1 == connect(Manager, w, sid)
                store1 == create_session(sessions, sid)
                created == create_call(Database, sid, dbok)
                m2 == IF enabled THEN m1
                      ELSE send_message(m1, sid, ConnectionMsg(sid, FALSE))
            IN  /\ Becomes(store1, Adapter, created.db, m2)
                /\ transcription_enabled' = Put(transcription_enabled, w, enabled)
                /\ pc' = [pc EXCEPT ![w] = IF enabled THEN "starting" ELSE "active"]
                /\ db_errors' = IF created.raised THEN db_errors + 1 ELSE db_errors
    /\ UNCHANGED << enabled, ws, cleanup_log, nrecv, last, appended, returned,
                    nevents, last_event, bc >>

\* main.py 119-133: start_transcription returns, then the confirmation is sent
StartTranscription(w, outcome) ==
    /\ pc[w] = "starting"
    /\ LET sid == session_id[w]
           started == start_transcription(Adapter, Manager, w, sid, outcome)
           m2 == send_message(started.manager, sid, ConnectionMsg(sid, TRUE))
       IN  Becomes(sessions, started.adapter, Database, m2)
    /\ pc' = [pc EXCEPT ![w] = "active"]
    /\ UNCHANGED << enabled, session_id, transcription_enabled, ws, cleanup_log,
                    nrecv, last, appended, returned, db_errors, nevents,
                    last_event, bc >>

\* main.py 135-220: websocket.receive() returns frame f and the loop body runs
Receive(w, f, psend, dbok) ==
    /\ pc[w] = "active"
    /\ LET r == on_frame(w, f, psend, dbok) IN
       /\ Becomes(r.store, r.adapter, r.db, r.manager)
       /\ pc' = [pc EXCEPT ![w] = r.next]
       /\ appended' = IF r.chunk = << >> THEN appended
                      ELSE [appended EXCEPT ![w].n = @ + 1,
                                            ![w].bytes = @ + Len(r.chunk[1])]
       /\ returned' = IF r.result = << >> THEN returned
                      ELSE [returned EXCEPT ![w] = r.result[1]]
       /\ db_errors' = IF r.db_raised THEN db_errors + 1 ELSE db_errors
    /\ nrecv' = [nrecv EXCEPT ![w] = @ + 1]
    /\ last' = [last EXCEPT ![w] = f]
    /\ UNCHANGED << enabled, session_id, transcription_enabled, ws, cleanup_log,
                    nevents, last_event, bc >>

\* main.py 137, 222-225: receive() reports the disconnect; the handler leaves
\* the loop through an except clause
Disconnected(w) ==
    /\ pc[w] = "active"
    /\ ws[w] = "gone"
    /\ pc' = [pc EXCEPT ![w] = "cleanup"]
    /\ UNCHANGED << active_connections, active_order, all_connections, sessions, enabled,
                    connections, provider, calls, transcriptions, now,
                    session_id, transcription_enabled, ws, outbox, cleanup_log,
                    nrecv, last, appended, returned, db_errors, nevents,
                    last_event, bc >>

\* main.py 226-240: the finally block
Cleanup(w, finish_ok, dbok) ==
    /\ pc[w] = "cleanup"
    /\ LET r == cleanup(w, finish_ok, dbok) IN
       /\ Becomes(r.store, r.adapter, r.db, r.manager)
       /\ cleanup_log' = [cleanup_log EXCEPT ![w] = @ \o r.log]
       /\ db_errors' = IF r.db_raised THEN db_errors + 1 ELSE db_errors
    /\ pc' = [pc EXCEPT ![w] = "closed"]
    /\ UNCHANGED << enabled, session_id, transcription_enabled, ws, nrecv, last,
                    appended, returned, nevents, last_event, bc >>

\* the provider pushes event ev on the connection opened by w's handler
ProviderEvent(w, ev, dbok) ==
    /\ provider[w].state = "open"
    /\ LET r == handle_event(Database, Manager, w, ev, dbok) IN
       /\ Becomes(sessions, Adapter, r.db, r.manager)
       /\ db_errors' = IF r.db_raised THEN db_errors + 1 ELSE db_errors
    /\ nevents' = nevents + 1
    /\ last_event' = [ev EXCEPT !.conn = w]
    /\ UNCHANGED << enabled, pc, session_id, transcription_enabled, ws,
                    cleanup_log, nrecv, last, appended, returned, bc >>

\* ConnectionManager.broadcast is called: the iterator is made and the
\* coroutine runs up to its first suspension
BroadcastCall(message) ==
    /\ bc.pc \in {"idle", "returned", "raised"}
    /\ LET r == broadcast(NewBroadcast(Manager, bc.n + 1), Manager, message) IN
       /\ bc' = r.frame
       /\ Becomes(sessions, Adapter, Database, r.manager)
    /\ UNCHANGED << enabled, pc, session_id, transcription_enabled, ws,
                    cleanup_log, nrecv, last, appended, returned, db_errors,
                    nevents, last_event >>

\* the awaited send_json is over and the coroutine runs up to its next suspension
BroadcastResume(message) ==
    /\ bc.pc = "sending"
    /\ LET r == broadcast(bc, Manager, message) IN
       /\ bc' = r.frame
       /\ Becomes(sessions, Adapter, Database, r.manager)
    /\ UNCHANGED << enabled, pc, session_id, transcription_enabled, ws,
                    cleanup_log, nrecv, last, appended, returned, db_errors,
                    nevents, last_event >>

\* ------------------------------------------------------- specifications
IsAudio(f) == f.kind = "bytes" \/ (f.json = "object" /\ f.type = "audio")

\* the outcomes of the environment that the step can tell apart
SendOutcomes(w, f) ==
    IF /\ w \in DOMAIN transcription_enabled
       /\ IsAudio(f) /\ transcription_enabled[w]
       /\ session_id[w] \in DOMAIN connections
    THEN BOOLEAN ELSE {TRUE}

StatsOutcomes(w, f) ==
    IF /\ w \in DOMAIN session_id
       /\ IsAudio(f)
       /\ session_id[w] \in DOMAIN sessions
       /\ (Len(sessions[session_id[w]].audio_chunks) + 1) % StatsEvery = 0
    THEN BOOLEAN ELSE {TRUE}

FinishOutcomes(w) ==
    IF /\ w \in DOMAIN transcription_enabled
       /\ transcription_enabled[w]
       /\ session_id[w] \in DOMAIN connections
    THEN BOOLEAN ELSE {TRUE}

SaveOutcomes(ev) ==
    IF ev.kind = "transcript" /\ Len(Strip(ev.text)) > 0 THEN BOOLEAN ELSE {TRUE}

\* inputs (frames and provider events) delivered so far
Inputs == nrecv["w1"] + nrecv["w2"] + nevents

\* One client, every kind of frame and provider event, at most MaxInputs of them.
Next ==
    \/ \E dbok \in BOOLEAN : Connect("w1", "a", dbok)
    \/ \E outcome \in {"ok", "false", "raise"} : StartTranscription("w1", outcome)
    \/ \E f \in Frames :
          \E psend \in SendOutcomes("w1", f), dbok \in StatsOutcomes("w1", f) :
              Inputs < MaxInputs /\ Receive("w1", f, psend, dbok)
    \/ Disconnected("w1")
    \/ \E finish_ok \in FinishOutcomes("w1"), dbok \in BOOLEAN :
          Cleanup("w1", finish_ok, dbok)
    \/ \E ev \in Events : \E dbok \in SaveOutcomes(ev) :
          Inputs < MaxInputs /\ ProviderEvent("w1", ev, dbok)
    \/ ClientDrop("w1")

Spec == Init /\ [][Next]_vars

\* Two clients.  The first handler is invoked for w1 with session id "a"; w2
\* comes later, with either session id.  At most PairInputs frames and events.
MayConnect(w, sid) ==
    \/ w = "w1" /\ sid = "a"
    \/ w = "w2" /\ pc["w1"] # "idle"

PairFrames == { BinaryFrame(<<1>>), TextFrame("object", "stop", << >>, 0) }

PairEvents == { TranscriptEvent(<<"h", "i">>, TRUE) }

NextPair ==
    \/ \E w \in Conns, sid \in SIDs :
          MayConnect(w, sid) /\ Connect(w, sid, TRUE)
    \/ \E w \in Conns, outcome \in {"ok", "false"} :
          StartTranscription(w, outcome)
    \/ \E w \in Conns, f \in PairFrames :
          \E psend \in SendOutcomes(w, f) :
              Inputs < PairInputs /\ Receive(w, f, psend, TRUE)
    \/ \E w \in Conns : Disconnected(w)
    \/ \E w \in Conns : \E finish_ok \in FinishOutcomes(w), dbok \in BOOLEAN :
          Cleanup(w, finish_ok, dbok)
    \/ \E w \in Conns, ev \in PairEvents : \E dbok \in SaveOutcomes(ev) :
          Inputs < PairInputs /\ ProviderEvent(w, ev, dbok)
    \/ \E w \in Conns : ClientDrop(w)

SpecPair == Init /\ [][NextPair]_vars

\* One client streaming a long call: the payload is always the same two
\* bytes, and at most LongOther other frames and provider events occur.
NextLong ==
    \/ \E dbok \in BOOLEAN : Connect("w1", "a", dbok)
    \/ \E outcome \in {"ok", "false", "raise"} : StartTranscription("w1", outcome)
    \/ \E f \in LongFrameSet : \E dbok \in StatsOutcomes("w1", f) :
          /\ nrecv["w1"] < LongFrames
          /\ IsAudio(f) \/ nrecv["w1"] - appended["w1"].n < LongOther
          /\ Receive("w1", f, TRUE, dbok)
    \/ \E finish_ok \in FinishOutcomes("w1"), dbok \in BOOLEAN :
          Cleanup("w1", finish_ok, dbok)
    \/ \E dbok \in BOOLEAN :
          /\ nevents < LongOther
          /\ ProviderEvent("w1", TranscriptEvent(<<"h", "i">>, TRUE), dbok)

SpecLong == Init /\ [][NextLong]_vars

\* Two clients come and go while notices are broadcast; no frames, no
\* provider events.  At most MaxBroadcasts calls of broadcast.
NextCast ==
    \/ \E w \in Conns, sid \in SIDs :
          MayConnect(w, sid) /\ Connect(w, sid, TRUE)
    \/ \E w \in Conns, outcome \in {"ok", "false"} :
          StartTranscription(w, outcome)
    \/ \E w \in Conns : Disconnected(w)
    \/ \E w \in Conns : \E finish_ok \in FinishOutcomes(w) :
          Cleanup(w, finish_ok, TRUE)
    \/ \E w \in Conns : ClientDrop(w)
    \/ bc.n < MaxBroadcasts /\ BroadcastCall(Notice)
    \/ BroadcastResume(Notice)

SpecCast == Init /\ [][NextCast]_vars

\* -------------------------------------------------------------- properties
\* the messages of one type delivered on a websocket
OfType(out, t) == SelectSeq(out, LAMBDA msg : msg.type = t)

RECURSIVE SumSizes(_)
SumSizes(chunks) ==
    IF chunks = << >> THEN 0 ELSE chunks[1].size + SumSizes(Tail(chunks))

\* handler w took a frame from its websocket in this step
Received(w) == nrecv'[w] = nrecv[w] + 1

\* the provider delivered an event in this step
Delivered == nevents' = nevents + 1

\* w's client is there and the registry holds w's websocket under w's session id
Reachable(w) ==
    /\ ws[w] = "open"
    /\ w \in DOMAIN session_id
    /\ session_id[w] \in DOMAIN active_connections
    /\ active_connections[session_id[w]] = w

\* C1: whatever frames were interleaved, the total_bytes and chunks_received
\* that process_audio_chunk returned last equal the total length and the
\* number of the payloads the handler has appended, and so do the counters of
\* the open session in the store.
C1_CountersAreSums ==
    \A w \in Conns :
        /\ returned[w].status = "success" =>
              /\ returned[w].total_bytes = appended[w].bytes
              /\ returned[w].chunks_received = appended[w].n
        /\ (pc[w] = "active" /\ session_id[w] \in DOMAIN sessions) =>
              /\ sessions[session_id[w]].total_bytes = appended[w].bytes
              /\ Len(sessions[session_id[w]].audio_chunks) = appended[w].n
              /\ SumSizes(sessions[session_id[w]].audio_chunks) = appended[w].bytes

\* three payloads of lengths 2, 0 and 1 appended, the last from a text frame
C1_Witness ==
    /\ appended["w1"] = [n |-> 3, bytes |-> 3]
    /\ returned["w1"].total_bytes = 3
    /\ last["w1"].kind = "text"
    /\ "a" \in DOMAIN sessions
    /\ sessions["a"].audio_chunks[1].size = 2
    /\ sessions["a"].audio_chunks[2].size = 0

\* C2: on a websocket whose client is there, the acknowledgments delivered
\* number floor(n / 10) for n chunks appended, and the k-th carries the
\* snapshot of chunk 10 k: its chunk count and the bytes counted up to it.
C2_AckEveryTenth ==
    LET acks == OfType(outbox["w1"], "audio_ack") IN
    /\ Len(acks) = appended["w1"].n \div AckEvery
    /\ \A k \in 1..Len(acks) :
          /\ acks[k].chunks_received = k * AckEvery
          /\ acks[k].session_id = "a"
          /\ pc["w1"] = "active" =>
                acks[k].total_bytes =
                    SumSizes(SubSeq(sessions["a"].audio_chunks, 1, k * AckEvery))

\* 25 chunks, exactly 2 acknowledgments
C2_Witness ==
    /\ appended["w1"].n = 25
    /\ Len(OfType(outbox["w1"], "audio_ack")) = 2
    /\ Len(OfType(outbox["w1"], "error")) = 1

StopFrame == TextFrame("object", "stop", << >>, 0)

\* C3: a stop frame received in Active puts exactly one stopped message on
\* the client's websocket (none if the client is gone) and sends the handler
\* to its cleanup; no frame is taken after it, so at most one stopped message
\* is ever delivered, and only to a handler that is in or past its cleanup.
C3_StopStepsToCleanup ==
    [][ \A w \in Conns :
          (Received(w) /\ last'[w] = StopFrame) =>
              /\ pc[w] = "active" /\ pc'[w] = "cleanup"
              /\ Reachable(w) =>
                    outbox' = [outbox EXCEPT ![w] = Append(@, Stopped(session_id[w]))]
              /\ ~Reachable(w) => outbox' = outbox ]_vars

C3_OneStopped ==
    \A w \in Conns :
        /\ Len(OfType(outbox[w], "stopped")) <= 1
        /\ Len(OfType(outbox[w], "stopped")) = 1 => pc[w] \in {"cleanup", "closed"}

C3_StopYieldsStoppedThenTeardown == C3_StopStepsToCleanup /\ []C3_OneStopped

\* stop as the first frame, before any audio
C3_Witness ==
    /\ nrecv["w1"] = 1
    /\ last["w1"] = StopFrame
    /\ appended["w1"].n = 0
    /\ outbox["w1"] = << ConnectionMsg("a", enabled), Stopped("a") >>
    /\ pc["w1"] = "closed"

\* a transcript event with text left after strip(), the kind handle_transcript
\* passes to on_transcript
Spoken(ev) == ev.kind = "transcript" /\ Len(Strip(ev.text)) > 0

Row(ev, sid) == [session_id |-> sid, transcript |-> ev.text, is_final |-> ev.is_final]

CleanupSteps == <<"end_call", "disconnect", "close_session", "db_close">>

\* C5 as stated: a handler that has ended did not raise, and its cleanup ran
\* once: every step of it in order, once each, the adapter's stop first when
\* transcription is enabled.
C5_CleanupOnceNeverRaises ==
    \A w \in Conns :
        /\ pc[w] # "raised"
        /\ pc[w] = "closed" =>
              cleanup_log[w] =
                  (IF transcription_enabled[w] THEN <<"stop_transcription">> ELSE << >>)
                  \o CleanupSteps

\* C6: a cleanup that finds the call record already ended (the cleanup of
\* the same session id ran before) leaves the record as it is - end time,
\* status, duration - and runs every one of its steps.
C6_SecondCleanupChangesNothing ==
    [][ \A w \in Conns :
          (pc[w] = "cleanup" /\ pc'[w] # "cleanup") =>
              /\ pc'[w] = "closed"
              /\ SubSeq(cleanup_log'[w], Len(cleanup_log'[w]) - 3, Len(cleanup_log'[w]))
                     = CleanupSteps
              /\ (session_id[w] \in DOMAIN calls
                  /\ calls[session_id[w]].ended_at # << >>) =>
                     /\ calls' = calls
                     /\ now' = now ]_vars

\* two handlers of session id "a" have both run their cleanup; the only
\* persistence call that raised is the second create_call
C6_Witness ==
    /\ pc = [w \in Conns |-> "closed"]
    /\ session_id = [w \in Conns |-> "a"]
    /\ db_errors = 1
    /\ calls["a"].status = "completed"
    /\ calls["a"].ended_at = <<2>>
    /\ now = 3

\* C7 as stated: an audio text frame whose data fails base64 decoding leaves
\* the handler in Active and puts an error message on the client's websocket.
C7_DecodeErrorReported ==
    [][ \A w \in Conns :
          (/\ Received(w)
           /\ last'[w].json = "object" /\ last'[w].type = "audio"
           /\ last'[w].data # << >>
           /\ ~decode_audio_data(last'[w].data).ok) =>
              /\ pc'[w] = "active"
              /\ Reachable(w) =>
                    Len(OfType(outbox'[w], "error")) = Len(OfType(outbox[w], "error")) + 1
       ]_vars

InvalidFrame == TextFrame("invalid", "", << >>, 0)

\* C8: a text frame that is no valid JSON leaves the handler in Active and
\* the store, the adapter and the durable record as they were; when the
\* client is reachable exactly one error message is delivered to it and the
\* registry is left as it was.
C8_InvalidJsonReported ==
    [][ \A w \in Conns :
          (Received(w) /\ last'[w].json = "invalid") =>
              /\ pc[w] = "active" /\ pc'[w] = "active"
              /\ UNCHANGED << sessions, connections, provider, calls,
                              transcriptions, appended, returned >>
              /\ Reachable(w) =>
                    /\ outbox' = [outbox EXCEPT ![w] = Append(@, ErrorMsg)]
                    /\ UNCHANGED << active_connections, all_connections >> ]_vars

\* a chunk, then the invalid frame: the counters and the provider connection
\* are still there and the handler is still in its loop
C8_Witness ==
    /\ last["w1"] = InvalidFrame
    /\ pc["w1"] = "active"
    /\ appended["w1"].n = 1
    /\ "a" \in DOMAIN sessions /\ sessions["a"].total_bytes = 2
    /\ "a" \in DOMAIN connections
    /\ active_connections = [x \in {"a"} |-> "w1"]
    /\ outbox["w1"][Len(outbox["w1"])] = ErrorMsg

\* C9: with no credential the handler goes from accept straight to Active
\* with a confirmation saying transcription is off, every tenth chunk is
\* acknowledged, every fiftieth chunk's totals are written to the call
\* record (when no persistence call raised), no provider connection exists
\* and no transcription message is delivered.
C9_DisabledStillRelays ==
    ~enabled =>
        LET n == appended["w1"].n
            out == outbox["w1"]
        IN  /\ pc["w1"] \in {"idle", "active", "cleanup", "closed"}
            /\ pc["w1"] # "idle" => out # << >> /\ out[1] = ConnectionMsg("a", FALSE)
            /\ Len(OfType(out, "audio_ack")) = n \div AckEvery
            /\ ("a" \in DOMAIN calls /\ db_errors = 0) =>
                  /\ calls["a"].chunks_count = StatsEvery * (n \div StatsEvery)
                  /\ pc["w1"] = "active" =>
                        calls["a"].total_bytes =
                            SumSizes(SubSeq(sessions["a"].audio_chunks, 1,
                                            calls["a"].chunks_count))
            /\ OfType(out, "transcription") = << >>
            /\ connections = EmptyDict
            /\ provider["w1"].state = "none"

\* fifty chunks without a credential: five acknowledgments, one statistics write
C9_Witness ==
    /\ ~enabled
    /\ pc["w1"] = "active"
    /\ appended["w1"].n = 50
    /\ Len(OfType(outbox["w1"], "audio_ack")) = 5
    /\ "a" \in DOMAIN calls
    /\ calls["a"].chunks_count = 50
    /\ calls["a"].total_bytes = 100

\* C10: when add_transcription raises, the transcription message is still
\* delivered to the reachable client and the handler stays where it was.
C10_SaveFailureStillRelays ==
    [][ (Delivered /\ Spoken(last_event') /\ db_errors' = db_errors + 1) =>
          LET ev == last_event'
              w == ev.conn
          IN  /\ pc' = pc
              /\ transcriptions' = transcriptions
              /\ Reachable(w) =>
                    outbox' = [outbox EXCEPT
                                  ![w] = Append(@, TranscriptionMsg(ev.text, ev.is_final))]
       ]_vars

\* the call record exists, the write of a final line raised, the line was
\* delivered to the client of a handler in Active
C10_Witness ==
    /\ "a" \in DOMAIN calls
    /\ db_errors = 1
    /\ transcriptions = << >>
    /\ last_event = [TranscriptEvent(<<"h", "i">>, TRUE) EXCEPT !.conn = "w1"]
    /\ pc["w1"] = "active"
    /\ outbox["w1"][Len(outbox["w1"])] = TranscriptionMsg(<<"h", "i">>, TRUE)

\* handler w passed a payload to process_audio_chunk in this step
Processed(w) == appended'[w].n = appended[w].n + 1

\* C11: process_audio_chunk on a session id that has no open session -
\* never opened, or closed and removed - returns the error result and leaves
\* every session of the store as it was; so does the handler's step that
\* calls it.
C11_NoSessionNoCount ==
    \A sid \in SIDs, audio_data \in Payloads :
        sid \notin DOMAIN sessions =>
            process_audio_chunk(sessions, sid, audio_data)
                = [sessions |-> sessions, result |-> ErrorResult]

C11_StepLeavesStore ==
    [][ \A w \in Conns :
          (Processed(w) /\ session_id[w] \notin DOMAIN sessions) =>
              /\ sessions' = sessions
              /\ returned'[w] = ErrorResult ]_vars

C11_ClosedSessionRejectsAudio == C11_StepLeavesStore /\ []C11_NoSessionNoCount

\* w1 and w2 share session id "a"; w1's cleanup closed the session, then w2
\* sent a chunk; "b" was never opened
C11_Witness ==
    /\ session_id = [w \in Conns |-> "a"]
    /\ pc["w1"] = "closed"
    /\ sessions = EmptyDict
    /\ last["w2"] = BinaryFrame(<<1>>)
    /\ appended["w2"] = [n |-> 1, bytes |-> 1]
    /\ returned["w2"] = ErrorResult
    /\ pc["w2"] = "cleanup"

\* C12 as stated: whatever a client has received on its connection begins
\* with the connection confirmation, and holds exactly one of them.
C12_ConfirmationFirstAndOnce ==
    \A w \in Conns :
        outbox[w] # << >> =>
            /\ outbox[w][1].type = "connection"
            /\ Len(OfType(outbox[w], "connection")) = 1

PingFrame == TextFrame("object", "ping", << >>, 7)

\* C13: a ping received in Active leaves the handler in Active and the audio
\* store, the adapter and the durable record as they were; the reachable
\* client is sent exactly one message for it, a pong with the ping's
\* timestamp.
C13_PingAnsweredByPong ==
    [][ \A w \in Conns :
          (Received(w) /\ last'[w].json = "object" /\ last'[w].type = "ping") =>
              /\ pc[w] = "active" /\ pc'[w] = "active"
              /\ UNCHANGED << sessions, connections, provider, calls,
                              transcriptions, appended, returned, db_errors >>
              /\ Reachable(w) =>
                    /\ outbox' = [outbox EXCEPT ![w] = Append(@, Pong(last'[w].timestamp))]
                    /\ outbox'[w][Len(outbox'[w])].timestamp = last'[w].timestamp
                    /\ UNCHANGED << active_connections, all_connections >> ]_vars

\* a chunk, then a ping with timestamp 7 answered by a pong with timestamp 7
C13_Witness ==
    /\ last["w1"] = PingFrame
    /\ pc["w1"] = "active"
    /\ appended["w1"].n = 1
    /\ "a" \in DOMAIN sessions /\ sessions["a"].total_bytes = 2
    /\ outbox["w1"][Len(outbox["w1"])].type = "pong"
    /\ outbox["w1"][Len(outbox["w1"])].timestamp = 7
    /\ Len(OfType(outbox["w1"], "pong")) = 1

\* C14: when the provider's start returned false or raised (the credential
\* is configured, the handler is past its start and no provider connection
\* was opened), the client has received exactly one connection confirmation,
\* the handler went on to Active, every tenth chunk it counted was
\* acknowledged, and no transcription message was delivered.
C14_StartFailureDegrades ==
    LET out == outbox["w1"]
        n == appended["w1"].n
    IN  (enabled /\ pc["w1"] \notin {"idle", "starting"}
                 /\ provider["w1"].state = "none") =>
            /\ pc["w1"] \in {"active", "cleanup", "closed"}
            /\ Len(OfType(out, "connection")) = 1
            /\ Len(OfType(out, "audio_ack")) = n \div AckEvery
            /\ returned["w1"].status = "success" => returned["w1"].chunks_received = n
            /\ OfType(out, "transcription") = << >>
            /\ connections = EmptyDict

\* the start raised; twenty chunks later the client holds the error of the
\* start, the confirmation and two acknowledgments
C14_Witness ==
    /\ enabled
    /\ pc["w1"] = "active"
    /\ provider["w1"].state = "none"
    /\ appended["w1"].n = 20
    /\ Len(outbox["w1"]) = 4
    /\ outbox["w1"][1].type = "transcription_error"
    /\ outbox["w1"][2] = ConnectionMsg("a", TRUE)
    /\ outbox["w1"][4].type = "audio_ack" /\ outbox["w1"][4].chunks_received = 20

StartOutcomes == {"ok", "false", "raise"}

\* C15: with no credential configured, start_transcription returns False
\* for every session and whatever the provider would have done, leaving the
\* adapter and the registry untouched (nothing is attempted, nothing is
\* reported); the adapter's connection map is empty and no provider
\* connection exists.
C15_DisabledNeverConnects ==
    ~enabled =>
        /\ connections = EmptyDict
        /\ \A w \in Conns : provider[w] = NoProvider
        /\ \A w \in Conns, sid \in SIDs, outcome \in StartOutcomes :
              start_transcription(Adapter, Manager, w, sid, outcome)
                  = [adapter |-> Adapter, manager |-> Manager, returned |-> FALSE]

\* no credential: the handler is in Active, has relayed a chunk, and was
\* told that transcription is off
C15_Witness ==
    /\ ~enabled
    /\ pc["w1"] = "active"
    /\ appended["w1"].n = 1
    /\ outbox["w1"][1] = ConnectionMsg("a", FALSE)
    /\ connections = EmptyDict

\* the provider connection the adapter holds for sid is open
Started(a, sid) ==
    sid \in DOMAIN a.connections /\ a.provider[a.connections[sid]].state = "open"

\* C16: send_audio returns True exactly when the adapter holds an open
\* provider connection for the session and connection.send did not raise,
\* and then the bytes are forwarded on that connection; in every other case
\* it returns False and the adapter and the provider are as they were.  It
\* returns in every case.
C16_SendAudioOnlyWhenStarted ==
    /\ \A sid \in DOMAIN connections : Started(Adapter, sid)
    /\ \A sid \in SIDs, audio_data \in Payloads, ok \in BOOLEAN :
          LET r == send_audio(Adapter, sid, audio_data, ok) IN
          /\ r.returned \in BOOLEAN
          /\ r.returned <=> (Started(Adapter, sid) /\ ok)
          /\ ~r.returned => r.adapter = Adapter
          /\ r.returned =>
                r.adapter = [Adapter EXCEPT
                                !.provider[connections[sid]].audio = Append(@, audio_data)]

C16_HandlerForwards ==
    [][ \A w \in Conns :
          (Processed(w) /\ returned'[w].status = "success") =>
              \/ provider' = provider
              \/ /\ transcription_enabled[w] /\ Started(Adapter, session_id[w])
                 /\ \E audio_data \in Payloads \cup {<<1>>} :
                       provider' = send_audio(Adapter, session_id[w], audio_data, TRUE)
                                       .adapter.provider ]_vars

C16_SendAudioReportsOutcome == C16_HandlerForwards /\ []C16_SendAudioOnlyWhenStarted

\* the handler forwarded one chunk on its open provider connection, and a
\* second chunk whose send raised was not forwarded
C16_Witness ==
    /\ pc["w1"] = "active"
    /\ Started(Adapter, "a")
    /\ appended["w1"].n = 2
    /\ provider["w1"].audio = << <<1, 2>> >>

\* C17 as stated: once the stop_transcription of a handler's cleanup has
\* returned, the adapter holds no connection for the handler's session id,
\* whether or not the provider's finish() raised; a stop for a session
\* without connection changes nothing.
C17_StopDropsReference ==
    [][ \A w \in Conns :
          (pc[w] = "cleanup" /\ pc'[w] = "closed" /\ transcription_enabled[w]) =>
              /\ session_id[w] \notin DOMAIN connections'
              /\ session_id[w] \notin DOMAIN connections =>
                    UNCHANGED << connections, provider >> ]_vars

\* C18 as stated: send_message to a session without handle leaves the
\* registry as it was; when the transport raises, the handle of the session
\* is removed, nothing is delivered, and what the caller gets back differs
\* from what it gets back after a delivery.
C18_SendFailureIsReported ==
    \A sid \in SIDs :
        LET m1 == send_message(Manager, sid, ErrorMsg) IN
        /\ sid \notin DOMAIN active_connections => m1 = Manager
        /\ (sid \in DOMAIN active_connections /\ SendFails(active_connections[sid])) =>
              /\ sid \notin DOMAIN m1.active
              /\ m1.out = outbox
              /\ send_message_value(Manager, sid, ErrorMsg, TRUE)
                     # send_message_value(Manager, sid, ErrorMsg, FALSE)

\* the notices delivered on a websocket
Notices(out, websocket) == Len(OfType(out[websocket], "notice"))

\* sessions whose handle is the one that was registered when broadcast was called
SameHandle(frame, active) ==
    { sid \in DOMAIN frame.before \cap DOMAIN active : active[sid] = frame.before[sid] }

\* C19: a broadcast during which no other coroutine has changed the
\* registry does not raise; when it returns, every session registered at the
\* call whose send did not fail has been sent the notice exactly once, a
\* session whose send failed has been sent nothing, a failure has not kept
\* the later sessions from their notice, and the registry holds exactly the
\* sessions registered at the call less those whose send failed.  (What
\* happens when the registry changes while broadcast is suspended is C39.)
C19_BroadcastCollectsFailures ==
    [][ (bc' # bc /\ bc'.n = 1 /\ active_connections = bc'.before) =>
          LET failed == { bc'.disconnected[i] : i \in DOMAIN bc'.disconnected } IN
          /\ bc'.pc # "raised"
          /\ bc'.pc = "returned" =>
                /\ \A sid \in DOMAIN bc'.before \ failed :
                      Notices(outbox', bc'.before[sid]) = 1
                /\ \A sid \in failed : Notices(outbox', bc'.before[sid]) = 0
                /\ DOMAIN active_connections' = DOMAIN bc'.before \ failed
                /\ \A sid \in DOMAIN active_connections' :
                      active_connections'[sid] = bc'.before[sid]
       ]_vars

\* "a" and "b" were registered; the client of "a", first in the dict, was
\* gone: "b" got the notice all the same and "a" is deregistered
C19_Witness ==
    /\ bc.pc = "returned"
    /\ bc.before = [sid \in SIDs |-> IF sid = "a" THEN "w1" ELSE "w2"]
    /\ bc.disconnected = <<"a">>
    /\ active_order = <<Dummy, "b">>
    /\ active_connections = [sid \in {"b"} |-> "w2"]
    /\ Notices(outbox, "w2") = 1
    /\ Notices(outbox, "w1") = 0

\* C39 as stated, for the first broadcast, while sessions connect and
\* disconnect between its sends: the call does not end by raising; when it
\* returns, every session that was registered at the call, is still
\* registered under the same handle and whose send did not fail has been
\* sent the notice exactly once, and no session whose send failed is still
\* registered under the handle it had.
C39_BroadcastUnderChurn ==
    [][ (bc' # bc /\ bc'.n = 1) =>
          LET failed == { bc'.disconnected[i] : i \in DOMAIN bc'.disconnected } IN
          /\ bc'.pc # "raised"
          /\ bc'.pc = "returned" =>
                /\ \A sid \in SameHandle(bc', active_connections') \ failed :
                      Notices(outbox', bc'.before[sid]) = 1
                /\ SameHandle(bc', active_connections') \cap failed = {}
       ]_vars

\* C20 as stated: the create_session of a connecting handler leaves an
\* audio session that is already open under its session id as it is, with
\* its byte and chunk counters; for a fresh id it creates a session with
\* counters at zero.
C20_OpenKeepsExistingSession ==
    [][ \A w \in Conns :
          (pc[w] = "idle" /\ pc'[w] \in {"starting", "active"}) =>
              LET sid == session_id'[w] IN
              IF sid \in DOMAIN sessions
              THEN sessions' = sessions
              ELSE /\ sessions' = Put(sessions, sid, AudioSession)
                   /\ sessions'[sid].total_bytes = 0
                   /\ sessions'[sid].audio_chunks = << >> ]_vars

\* C21: close_session for a session id that has no entry (it was closed
\* before) gives back the store as it is, so closing twice is closing once and
\* no other session is touched; the cleanup that finds its session already
\* closed leaves the store as it is and runs all of its steps.
C21_CloseTwiceIsCloseOnce ==
    \A sid \in SIDs :
        /\ sid \notin DOMAIN sessions => close_session(sessions, sid) = sessions
        /\ close_session(close_session(sessions, sid), sid) = close_session(sessions, sid)
        /\ \A other \in DOMAIN sessions \ {sid} :
              /\ other \in DOMAIN close_session(sessions, sid)
              /\ close_session(sessions, sid)[other] = sessions[other]

C21_SecondCloseInCleanup ==
    [][ \A w \in Conns :
          (pc[w] = "cleanup" /\ pc'[w] # "cleanup"
           /\ session_id[w] \notin DOMAIN sessions) =>
              /\ sessions' = sessions
              /\ pc'[w] = "closed"
              /\ SubSeq(cleanup_log'[w], Len(cleanup_log'[w]) - 3, Len(cleanup_log'[w]))
                     = CleanupSteps ]_vars

C21_CloseSessionIdempotent == C21_SecondCloseInCleanup /\ []C21_CloseTwiceIsCloseOnce

\* both handlers of session id "a" have closed it, w1 after counting a chunk
C21_Witness ==
    /\ pc = [w \in Conns |-> "closed"]
    /\ session_id = [w \in Conns |-> "a"]
    /\ appended["w1"].n = 1
    /\ sessions = EmptyDict
    /\ \A w \in Conns : cleanup_log[w][Len(cleanup_log[w]) - 1] = "close_session"

\* json.loads accepted the text of the frame
ValidJson(f) == f.kind = "text" /\ f.json \in {"object", "scalar"}

\* C22 as stated: a text frame of valid JSON whose type is none of audio,
\* ping and stop leaves the handler in Active, sends nothing to the client
\* and changes neither the store, the registry, the adapter nor the durable
\* record.
C22_UnknownTypeIgnored ==
    [][ \A w \in Conns :
          (Received(w) /\ ValidJson(last'[w])
           /\ last'[w].type \notin {"audio", "ping", "stop"}) =>
              /\ pc'[w] = "active"
              /\ UNCHANGED << outbox, sessions, active_connections, all_connections,
                              connections, provider, calls, transcriptions >> ]_vars

\* the finally block of w's handler runs in this step
CleansUp(w) == pc[w] = "cleanup" /\ pc'[w] = "closed"

\* C23 as stated: provider connections are never shared between client
\* connections, the same session id included: a chunk counted for one handler
\* is never forwarded over the connection the other handler opened, and the
\* cleanup of one handler never changes the state of the other's connection.
C23_ProviderConnectionsApart ==
    [][ \A w \in Conns : \A other \in Conns \ {w} :
          pc[other] = "active" =>
              /\ Processed(w) => provider'[other].audio = provider[other].audio
              /\ CleansUp(w) => provider'[other].state = provider[other].state ]_vars

\* C24 as stated: the cleanup of one handler never removes the registry
\* handle or the store entry of a different handler that is still live, the
\* same session id included.
C24_CleanupSparesOthers ==
    [][ \A w \in Conns : \A other \in Conns \ {w} :
          (CleansUp(w) /\ pc[other] = "active") =>
              /\ (session_id[other] \in DOMAIN active_connections
                  /\ active_connections[session_id[other]] = other) =>
                     /\ session_id[other] \in DOMAIN active_connections'
                     /\ active_connections'[session_id[other]] = other
              /\ session_id[other] \in DOMAIN sessions =>
                     /\ session_id[other] \in DOMAIN sessions'
                     /\ sessions'[session_id[other]] = sessions[session_id[other]] ]_vars

\* C25 as stated: once the cleanup of a handler has run, nothing keyed by its
\* session id is left: no registry handle, no store entry, no adapter
\* connection, and the call record that exists is marked ended when the write
\* that ends it went through.
C25_NothingOutlivesCleanup ==
    [][ \A w \in Conns :
          CleansUp(w) =>
              LET sid == session_id[w] IN
              /\ sid \notin DOMAIN active_connections'
              /\ sid \notin DOMAIN sessions'
              /\ sid \notin DOMAIN connections'
              /\ (sid \in DOMAIN calls' /\ db_errors' = db_errors) =>
                     /\ calls'[sid].status = "completed"
                     /\ calls'[sid].ended_at # << >> ]_vars

\* what the client of websocket w is sent in this step
NewMessages(w) == SubSeq(outbox'[w], Len(outbox[w]) + 1, Len(outbox'[w]))

\* the acknowledgments among the messages out, in the order they were sent
Acks(out) == SelectSeq(out, LAMBDA msg : msg.type = "audio_ack")

\* C26: the client receives the messages in the order the send_message calls
\* were issued, whichever call site issued them: every step leaves what was
\* already delivered in place and puts its own messages behind it (the
\* receive loop one acknowledgment, pong, stopped or error message, the
\* provider callback one transcription or transcription_error message), and
\* the acknowledgments delivered carry the counts 10, 20, ... in that order.
C26_SendsLandInIssueOrder ==
    [][ \A w \in Conns :
          /\ Len(outbox'[w]) >= Len(outbox[w])
          /\ SubSeq(outbox'[w], 1, Len(outbox[w])) = outbox[w]
          /\ (\E h \in Conns : Received(h)) =>
                 /\ Len(NewMessages(w)) <= 1
                 /\ \A i \in DOMAIN NewMessages(w) :
                        NewMessages(w)[i].type \in {"audio_ack", "pong", "stopped", "error"}
          /\ Delivered =>
                 /\ Len(NewMessages(w)) <= 1
                 /\ \A i \in DOMAIN NewMessages(w) :
                        NewMessages(w)[i].type \in {"transcription", "transcription_error"} ]_vars

C26_AcksAscending ==
    \A w \in Conns : \A i \in DOMAIN Acks(outbox[w]) :
        Acks(outbox[w])[i].chunks_received = i * AckEvery

Persisted(ev) ==
    /\ Delivered /\ Spoken(ev)
    /\ session_id[ev.conn] \in DOMAIN calls
    /\ db_errors' = db_errors

Payload(f) == IF f.kind = "bytes" THEN f.bytes ELSE decode_audio_data(f.data).bytes

\* the byte strings of the chunks the store holds for sid
ChunkData(store, sid) ==
    [i \in DOMAIN store[sid].audio_chunks |-> store[sid].audio_chunks[i].data]

\* C28: while transcription is started, an audio payload the handler
\* receives is appended to the store once and forwarded once: the store's
\* chunk list grows by that payload, the provider connection receives that
\* same payload once, at the end of what it was sent before, unless
\* connection.send raised, and then it receives nothing.  The provider has
\* never been sent more chunks than the store holds, and as long as no send
\* raised the two sequences are equal.
C28_RelayAppendsAndForwardsOnce ==
    [][ \A w \in Conns :
          (Processed(w) /\ returned'[w].status = "success"
           /\ transcription_enabled[w] /\ Started(Adapter, session_id[w])) =>
              LET sid == session_id[w]
                  c == connections[sid]
                  p == Payload(last'[w])
              IN  /\ ChunkData(sessions', sid) = Append(ChunkData(sessions, sid), p)
                  /\ \/ provider' = [provider EXCEPT ![c].audio = Append(@, p)]
                     \/ provider' = provider ]_vars

C28_ProviderSequenceIsStoreSequence ==
    \A w \in Conns :
        (pc[w] = "active" /\ transcription_enabled[w]
         /\ Started(Adapter, session_id[w]) /\ connections[session_id[w]] = w
         /\ session_id[w] \in DOMAIN sessions) =>
            LET sent == provider[w].audio
                kept == ChunkData(sessions, session_id[w])
            IN  /\ Len(sent) <= Len(kept)
                /\ Len(sent) = Len(kept) => sent = kept

C29_StatsWrittenOnFiftieth ==
    [][ \A w \in Conns :
          (Processed(w) /\ returned'[w].status = "success") =>
              LET sid == session_id[w]
                  result == returned'[w]
              IN  IF /\ result.chunks_received % StatsEvery = 0
                     /\ sid \in DOMAIN calls
                     /\ db_errors' = db_errors
                  THEN calls' = [calls EXCEPT
                                    ![sid].total_bytes = result.total_bytes,
                                    ![sid].chunks_count = result.chunks_received]
                  ELSE calls' = calls ]_vars

C29_RecordCountIsMultiple ==
    \A w \in DOMAIN session_id :
        session_id[w] \in DOMAIN calls =>
            LET count == calls[session_id[w]].chunks_count IN
            /\ count % StatsEvery = 0
            /\ count <= appended[w].n
            /\ session_id[w] \in DOMAIN sessions =>
                   count <= Len(sessions[session_id[w]].audio_chunks)

C29_StatsOnTheirOwnModulus == C29_StatsWrittenOnFiftieth /\ []C29_RecordCountIsMultiple

\* with transcription on, chunk 51 counted: the record holds the totals of
\* chunk 50, five acknowledgments were sent
C29_Witness ==
    /\ enabled
    /\ pc["w1"] = "active"
    /\ appended["w1"].n = StatsEvery + 1
    /\ "a" \in DOMAIN calls
    /\ calls["a"].chunks_count = StatsEvery
    /\ calls["a"].total_bytes = 2 * StatsEvery
    /\ Len(Acks(outbox["w1"])) = 5

\* start_transcription returned in this step of w's handler
StartReturned(w) == pc[w] = "starting" /\ pc'[w] = "active"

\* C30 as stated: every provider error reaches the client as a
\* transcription_error message and leaves the handler relaying: a start that
\* did not open the provider connection puts one transcription_error ahead of
\* the confirmation, an error event on an open connection puts one on the
\* websocket, and in both cases the handler is in Active afterwards.
C30_ProviderErrorsReported ==
    [][ \A w \in Conns :
          /\ (StartReturned(w) /\ enabled /\ ~Started(Adapter', session_id[w])
              /\ Reachable(w)) =>
                 /\ Len(NewMessages(w)) = 2
                 /\ NewMessages(w)[1].type = "transcription_error"
                 /\ NewMessages(w)[2] = ConnectionMsg(session_id[w], TRUE)
          /\ (Delivered /\ last_event'.kind = "error" /\ last_event'.conn = w
              /\ Reachable(w)) =>
                 /\ Len(NewMessages(w)) = 1
                 /\ NewMessages(w)[1].type = "transcription_error"
                 /\ pc'[w] = pc[w] ]_vars

\* a persistence call of this step raised (and was caught and logged)
PersistenceFailed == db_errors' = db_errors + 1

\* the handler of w ran from accept to the start of transcription in this step
Accepted(w) == pc[w] = "idle" /\ pc'[w] \in {"starting", "active"}

\* C31: a create_call, update_call_stats or end_call that raises changes
\* nothing for the client and nothing on the live path: after a failed
\* create_call the handler goes on to start transcription or, without a
\* credential, sends the confirmation and is in Active; after a failed
\* update_call_stats the chunk is counted, the acknowledgment of that chunk
\* is sent and the handler stays in Active; after a failed end_call the
\* registry handle and the store entry are removed and every step of the
\* cleanup has run.  No message other than those is sent and the durable
\* records are as they were.
C31_PersistenceFailureUnseen ==
    [][ \A w \in Conns :
          /\ (PersistenceFailed /\ Accepted(w)) =>
                LET sid == session_id'[w] IN
                /\ pc'[w] = IF enabled THEN "starting" ELSE "active"
                /\ NewMessages(w) = IF enabled THEN << >>
                                    ELSE << ConnectionMsg(sid, FALSE) >>
                /\ sid \in DOMAIN sessions' /\ sessions'[sid] = AudioSession
                /\ active_connections'[sid] = w
                /\ calls' = calls
          /\ (PersistenceFailed /\ Processed(w)) =>
                LET sid == session_id[w] IN
                /\ pc'[w] = "active"
                /\ returned'[w].status = "success"
                /\ returned'[w].chunks_received = Len(sessions'[sid].audio_chunks)
                /\ NewMessages(w) = IF should_ack(returned'[w]) /\ Reachable(w)
                                    THEN << AudioAck(sid, returned'[w]) >>
                                    ELSE << >>
                /\ calls' = calls
          /\ (PersistenceFailed /\ CleansUp(w)) =>
                LET sid == session_id[w]
                    n == Len(cleanup_log'[w])
                IN  /\ n >= 4 /\ SubSeq(cleanup_log'[w], n - 3, n) = CleanupSteps
                    /\ sid \notin DOMAIN active_connections'
                    /\ sid \notin DOMAIN sessions'
                    /\ NewMessages(w) = << >>
                    /\ calls' = calls ]_vars

\* create_call, the statistics write of chunk 50 and end_call all raised: the
\* client holds the confirmation and the five acknowledgments, and the
\* cleanup has run
C31_Witness ==
    /\ db_errors = 3
    /\ pc["w1"] = "closed"
    /\ appended["w1"].n = StatsEvery
    /\ calls = EmptyDict
    /\ Len(Acks(outbox["w1"])) = 5
    /\ outbox["w1"][Len(outbox["w1"])].type = "stopped"
    /\ sessions = EmptyDict /\ active_connections = EmptyDict

\* --------------------------------------------- two sessions, with errors
\* Two clients with different session ids: w1 is session "a", w2 is session
\* "b".  Audio frames that decode and that do not, error events of the
\* provider (sent on to a client that may be gone), clients that go away.
\* At most ScopeInputs frames and events.
ScopeSid(w) == IF w = "w1" THEN "a" ELSE "b"

ScopeFrames ==
    { BinaryFrame(<<1, 2>>),
      TextFrame("object", "audio", <<"A", "Q", "I">>, 0) }

ScopeEvents == { ErrorEvent }

NextScope ==
    \/ \E w \in Conns : Connect(w, ScopeSid(w), TRUE)
    \/ \E w \in Conns, outcome \in {"ok", "raise"} : StartTranscription(w, outcome)
    \/ \E w \in Conns, f \in ScopeFrames :
          Inputs < ScopeInputs /\ Receive(w, f, TRUE, TRUE)
    \/ \E w \in Conns : Disconnected(w)
    \/ \E w \in Conns : \E finish_ok \in FinishOutcomes(w) : Cleanup(w, finish_ok, TRUE)
    \/ \E w \in Conns, ev \in ScopeEvents :
          Inputs < ScopeInputs /\ ProviderEvent(w, ev, TRUE)
    \/ \E w \in Conns : ClientDrop(w)

SpecScope == Init /\ [][NextScope]_vars

\* the step belongs to w: its handler moves or takes a frame, its provider
\* connection delivers an event, or its client goes away
Acts(w) ==
    \/ pc'[w] # pc[w]
    \/ Received(w)
    \/ Delivered /\ last_event'.conn = w
    \/ ws'[w] # ws[w]

\* dict.get(k) with None as the empty sequence
Entry(d, k) == IF k \in DOMAIN d THEN <<d[k]>> ELSE << >>

\* what the registry, the store, the adapter and the durable record hold
\* under session id sid
Holdings(sid, active, store, conns, prov, records, lines) ==
    [handle |-> Entry(active, sid),
     session |-> Entry(store, sid),
     connection |-> IF sid \in DOMAIN conns
                    THEN <<conns[sid], prov[conns[sid]]>> ELSE << >>,
     call |-> Entry(records, sid),
     lines |-> SelectSeq(lines, LAMBDA row : row.session_id = sid)]

\* C32: whatever happens in one session - its client goes away, a frame does
\* not decode, a send to its client fails, its provider reports an
\* error, its handler cleans up - the registry handle, the store entry with
\* its counters, the adapter connection and the durable record of every
\* other session id are left as they were, and so is the other client's
\* websocket.
C32_ErrorsStayInTheirSession ==
    [][ \A w \in Conns :
          Acts(w) =>
              /\ \A sid \in SIDs \ {Entry(session_id', w)[i] : i \in DOMAIN Entry(session_id', w)} :
                    Holdings(sid, active_connections', sessions', connections',
                             provider', calls', transcriptions')
                      = Holdings(sid, active_connections, sessions, connections,
                                 provider, calls, transcriptions)
              /\ \A other \in Conns \ {w} :
                    /\ outbox'[other] = outbox[other]
                    /\ pc'[other] = pc[other]
                    /\ provider'[other] = provider[other] ]_vars

\* session "a" has seen a provider error, a frame that did not decode and its
\* teardown; session "b" counted a chunk meanwhile and is live and whole
C32_Witness ==
    /\ pc["w1"] = "closed" /\ pc["w2"] = "active"
    /\ last["w1"] = TextFrame("object", "audio", <<"A", "Q", "I">>, 0)
    /\ last_event = [ErrorEvent EXCEPT !.conn = "w1"]
    /\ Len(OfType(outbox["w1"], "transcription_error")) = 1
    /\ Holdings("a", active_connections, sessions, connections, provider, calls,
                transcriptions).handle = << >>
    /\ Holdings("b", active_connections, sessions, connections, provider, calls,
                transcriptions)
         = [handle |-> <<"w2">>,
            session |-> << add_chunk(AudioSession, <<1, 2>>) >>,
            connection |-> << "w2", [state |-> "open", audio |-> << <<1, 2>> >>] >>,
            call |-> << calls["b"] >>,
            lines |-> << >>]
    /\ "b" \in DOMAIN calls /\ calls["b"].status = "active"

\* C33 as stated: the store keeps the running counters of a session and
\* none of the byte sequences it was given: no chunk is held once it has
\* been counted and forwarded.
C33_ChunksNotRetained ==
    \A sid \in DOMAIN sessions : sessions[sid].audio_chunks = << >>

\* C34 as stated: the set all_connections is exactly the set of the handles
\* that active_connections holds, whatever connects, disconnects and failed
\* sends came before.
C34_AccountingExact ==
    all_connections = { active_connections[sid] : sid \in DOMAIN active_connections }

\* C35 as stated: the confirmation says transcription is enabled exactly
\* when the adapter holds an open provider connection for the session at the
\* moment the message is sent.
C35_FlagTellsProviderState ==
    [][ \A w \in Conns : \A i \in DOMAIN NewMessages(w) :
          NewMessages(w)[i].type = "connection" =>
              (NewMessages(w)[i].transcription_enabled
                  <=> Started(Adapter', NewMessages(w)[i].session_id)) ]_vars

\* base64 text of a byte sequence, the inverse of what decode_audio_data
\* undoes: three bytes make four characters, the last group is padded
RECURSIVE b64encode(_)
b64encode(b) ==
    CASE Len(b) = 0 -> << >>
      [] Len(b) = 1 ->
            << Alphabet[b[1] \div 4 + 1], Alphabet[(b[1] % 4) * 16 + 1], "=", "=" >>
      [] Len(b) = 2 ->
            << Alphabet[b[1] \div 4 + 1],
               Alphabet[(b[1] % 4) * 16 + b[2] \div 16 + 1],
               Alphabet[(b[2] % 16) * 4 + 1], "=" >>
      [] OTHER ->
            << Alphabet[b[1] \div 4 + 1],
               Alphabet[(b[1] % 4) * 16 + b[2] \div 16 + 1],
               Alphabet[(b[2] % 16) * 4 + b[3] \div 64 + 1],
               Alphabet[(b[3] % 64) + 1] >> \o b64encode(SubSeq(b, 4, Len(b)))

\* byte sequences a client may send either way
EitherWay == { << >>, <<1>>, <<1, 2>>, <<255, 0, 16, 7>> }

\* C36 as stated: in every state of a handler in Active, the loop iteration
\* on a binary frame with bytes B and the one on a text audio message with
\* the base64 text of B give the same store, adapter, record and registry,
\* the same acknowledgment and the same next position, for every B, the
\* empty one included.
C36_BinaryAndTextAlike ==
    \A w \in Conns :
        pc[w] = "active" =>
            \A B \in EitherWay, psend \in BOOLEAN, dbok \in BOOLEAN :
                on_frame(w, BinaryFrame(B), psend, dbok)
                    = on_frame(w, TextFrame("object", "audio", b64encode(B), 0),
                               psend, dbok)

\* the cleanup of w's handler has run and the call record of its session
\* is marked ended
EndedCall(w) ==
    /\ pc[w] = "closed"
    /\ w \in DOMAIN session_id
    /\ session_id[w] \in DOMAIN calls
    /\ calls[session_id[w]].status = "completed"

\* C37 as stated: once the cleanup of a session has marked its call ended,
\* no step appends a transcript line to the durable record and no step puts
\* a transcription message on its client's websocket, also when the
\* provider's finish() raised during stop_transcription.
C37_NothingAfterEnd ==
    [][ \A w \in Conns :
          EndedCall(w) =>
              /\ SelectSeq(transcriptions', LAMBDA row : row.session_id = session_id[w])
                    = SelectSeq(transcriptions, LAMBDA row : row.session_id = session_id[w])
              /\ OfType(outbox'[w], "transcription") = OfType(outbox[w], "transcription") ]_vars

\* a provider result whose text is empty or nothing but spaces
Blank(ev) == ev.kind = "transcript" /\ Strip(ev.text) = << >>

\* texts of provider results that strip() empties
BlankTexts == { << >>, <<" ">>, <<" ", " ">> }

\* C38: a provider result whose text is empty or only whitespace, interim or
\* final, is dropped by handle_transcript: in every state the callback
\* leaves the durable record and the registry as they are, and the step that
\* delivers such a result changes neither what the client has received nor
\* the persisted lines, the call records or the handler's position.
C38_BlankIsDropped ==
    \A w \in DOMAIN session_id, text \in BlankTexts, final \in BOOLEAN, ok \in BOOLEAN :
        handle_event(Database, Manager, w, TranscriptEvent(text, final), ok)
            = [db |-> Database, db_raised |-> FALSE, manager |-> Manager]

C38_BlankStepChangesNothing ==
    [][ (Delivered /\ Blank(last_event')) =>
            UNCHANGED << outbox, transcriptions, calls, db_errors, pc,
                         active_connections, all_connections >> ]_vars

C38_BlankTranscriptNoEvent == C38_BlankStepChangesNothing /\ []C38_BlankIsDropped

\* a final result of one space and an interim result of no text were
\* delivered: the client holds the confirmation alone, nothing is persisted
C38_Witness ==
    /\ nevents = 2
    /\ last_event = [TranscriptEvent(<<" ">>, TRUE) EXCEPT !.conn = "w1"]
    /\ pc["w1"] = "active"
    /\ "a" \in DOMAIN calls
    /\ outbox["w1"] = << ConnectionMsg("a", TRUE) >>
    /\ transcriptions = << >>
    /\ db_errors = 0

=============================================================================
